---- MODULE Spec2Model ----
(***************************************************************************)
(* Model of mcp-server-qdrant's memory facade (memory.py) and of the two   *)
(* tool adapters registered by QdrantMCPServer (mcp_server.py).            *)
(*                                                                         *)
(* Units: a raw similarity score is an integer number of 1e-5, a rounded   *)
(* score (round(score, 4)) an integer number of 1e-4.  The raw scores used *)
(* are multiples of 1/32 = 0.03125, which binary floating point holds      *)
(* exactly, so Python's round() is exactly round-half-to-even on them.     *)
(* Optional[T] is a sequence: <<>> for None, <<x>> for the value x.        *)
(* A dict is a function whose domain is its set of keys.                   *)
(***************************************************************************)
EXTENDS Integers, Sequences, FiniteSets, TLC

\* ------------------------------------------------------------------ bounds
MaxPoints == 2
MaxUuid == 2
MaxTopK == 2
MaxTick == 2
MaxHits == 3
MaxTasks == 2

\* ------------------------------------------------------- optional values
None == <<>>
Some(x) == <<x>>

\* ------------------------------------------------------------ input sets
Contents == {"a", "b"}
CollectionArgs == {None, Some("c")}
IdArgs == {None, Some(""), Some("i")}
UserArgs == {None, Some("u")}
EmptyDict == [k \in {} |-> ""]
FullDict == [k \in {"timestamp", "content", "collection_name", "user_id"} |->
               CASE k = "timestamp" -> "t"
                 [] k = "content" -> "z"
                 [] k = "collection_name" -> "c"
                 [] OTHER -> "u"]
MetadataArgs == {None, Some(EmptyDict), Some([k \in {"user_id"} |-> "u"]), Some(FullDict)}
\* the clock read every half second: 0.0 s, 0.5 s, 1.0 s, ...
ClockReadings == {[sec |-> k \div 2, usec |-> (k % 2) * 500000] : k \in 0..MaxTick}
ConstructFailures == {"none", "provider", "connector"}
AwaitErrors == {"embedding failed", "connection refused"}
\* raw scores n/32 in units of 1e-5: -1/32, 1/32, 3/32, 1/2, 1 (finite floats;
\* a hit without a score is None)
RawScores == {-3125, 3125, 9375, 50000, 100000}

\* ------------------------------------------------------------ dict helpers
DictGet(d, k, default) == IF k \in DOMAIN d THEN d[k] ELSE default
DictSet(d, k, v) == [x \in DOMAIN d \cup {k} |-> IF x = k THEN v ELSE d[x]]
DictSetDefault(d, k, v) == IF k \in DOMAIN d THEN d ELSE DictSet(d, k, v)

\* --------------------------------------------------------------- memory.py
\* datetime.utcnow().replace(microsecond=0).isoformat()
now_iso(clock) ==
  LET truncated == [clock EXCEPT !.usec = 0]
  IN "1970-01-01T00:00:0" \o ToString(truncated.sec)
       \o (IF truncated.usec = 0 THEN "" ELSE "." \o ToString(truncated.usec))

\* str(uuid.uuid4()): the n-th identifier drawn; distinct draws are distinct
uuid4(n) == "uuid4-" \o ToString(n)

\* round(score, 4): round half to even at the fourth decimal
Round4(raw) ==
  LET q == raw \div 10
      r == raw % 10
  IN IF r < 5 THEN q
     ELSE IF r > 5 THEN q + 1
     ELSE IF q % 2 = 0 THEN q ELSE q + 1

\* ResultItem reading a payload attribute the hits do not have
ResultItemNoPayload(idx, hit) ==
  [id |-> ToString(idx),
   content |-> hit.content,
   metadata |-> EmptyDict,
   score |-> Round4(IF hit.score /= None THEN hit.score[1] ELSE 100000)]

\* one iteration of the loop over enumerate(hits)
ResultItem(idx, hit) ==
  [id |-> ToString(idx),
   content |-> hit.content,
   metadata |-> IF hit.metadata = None \/ DOMAIN hit.metadata[1] = {}
                THEN EmptyDict ELSE hit.metadata[1],
   score |-> Round4(IF hit.score /= None THEN hit.score[1] ELSE 100000)]

\* MappedHits starting the loop at the second hit
MappedHitsSkipFirst(hits) ==
  [i \in 1..(IF hits = <<>> THEN 0 ELSE Len(hits) - 1) |-> ResultItem(i, hits[i + 1])]

MappedHits(hits) == [i \in 1..Len(hits) |-> ResultItem(i - 1, hits[i])]

\* InsertDesc without reverse=True
RECURSIVE InsertAsc(_, _)
InsertAsc(sorted, x) ==
  IF sorted = <<>> THEN <<x>>
  ELSE IF Head(sorted).score <= x.score
       THEN <<Head(sorted)>> \o InsertAsc(Tail(sorted), x)
       ELSE <<x>> \o sorted

\* list.sort(key=score, reverse=True): stable, equal scores keep their order
RECURSIVE InsertDesc(_, _)
InsertDesc(sorted, x) ==
  IF sorted = <<>> THEN <<x>>
  ELSE IF Head(sorted).score >= x.score
       THEN <<Head(sorted)>> \o InsertDesc(Tail(sorted), x)
       ELSE <<x>> \o sorted

RECURSIVE SortByScoreDesc(_)
SortByScoreDesc(items) ==
  IF items = <<>> THEN <<>>
  ELSE LET front == SortByScoreDesc(SubSeq(items, 1, Len(items) - 1))
       IN InsertDesc(front, items[Len(items)])

\* memory_query after client.search has returned
QueryResult(hits) == SortByScoreDesc(MappedHits(hits))

\* memory_upsert: memory_id = id or str(uuid.uuid4())
NeedsUuid(id) == id = None \/ id[1] = ""

\* MemoryId testing "id is not None" instead of the truth of id
MemoryIdNotNone(id, n) == IF id = None THEN uuid4(n) ELSE id[1]

MemoryId(id, n) == IF NeedsUuid(id) THEN uuid4(n) ELSE id[1]

\* UpsertMeta assigning the timestamp instead of setdefault
UpsertMetaOverwrite(content, collection_name, metadata, clock) ==
  LET m0 == IF metadata = None \/ DOMAIN metadata[1] = {} THEN EmptyDict ELSE metadata[1]
      m1 == DictSet(m0, "timestamp", now_iso(clock))
      m2 == DictSet(m1, "content", content)
  IN DictSetDefault(m2, "collection_name", collection_name)

\* memory_upsert: the metadata of the entry handed to the store
UpsertMeta(content, collection_name, metadata, clock) ==
  LET m0 == IF metadata = None \/ DOMAIN metadata[1] = {} THEN EmptyDict ELSE metadata[1]
      m1 == DictSetDefault(m0, "timestamp", now_iso(clock))
      m2 == DictSet(m1, "content", content)
  IN DictSetDefault(m2, "collection_name", collection_name)

\* ------------------------------------------------------ qdrant.py (store)
\* similarity of a query text and a stored text, in units of 1e-5
Similarity(query, content) == IF query = content THEN 100000 ELSE 50000

\* QdrantConnector.store(entry, collection_name=...)
QdrantStore(pts, entry, collection_name) ==
  Append(pts, [collection |-> collection_name, content |-> entry.content,
               metadata |-> entry.metadata])

\* the indices of the limit nearest points of the collection, nearest first
RECURSIVE Nearest(_, _, _, _)
Nearest(pts, cand, query, limit) ==
  IF limit <= 0 \/ cand = {} THEN <<>>
  ELSE LET best == CHOOSE i \in cand : \A j \in cand :
                     \/ Similarity(query, pts[i].content) > Similarity(query, pts[j].content)
                     \/ /\ Similarity(query, pts[i].content) = Similarity(query, pts[j].content)
                        /\ i <= j
       IN <<best>> \o Nearest(pts, cand \ {best}, query, limit - 1)

SearchPids(pts, query, collection_name, limit) ==
  Nearest(pts, {i \in 1..Len(pts) : pts[i].collection = collection_name}, query, limit)

\* QdrantConnector.search(query, collection_name=..., limit=...)
QdrantSearch(pts, query, collection_name, limit) ==
  LET pids == SearchPids(pts, query, collection_name, limit)
  IN [n \in 1..Len(pids) |->
        [content |-> pts[pids[n]].content,
         metadata |-> Some(pts[pids[n]].metadata),
         score |-> Some(Similarity(query, pts[pids[n]].content))]]

\* a search with a filter on the payload's user_id, if the request has one
Filtered(pts, req) ==
  {i \in 1..Len(pts) :
     /\ pts[i].collection = req.collection_name
     /\ \/ "filter" \notin DOMAIN req
        \/ req.filter = None
        \/ DictGet(pts[i].metadata, "user_id", "") = req.filter[1]}

RequestPids(pts, req) ==
  IF "filter" \in DOMAIN req
  THEN Nearest(pts, Filtered(pts, req), req.query, req.limit)
  ELSE SearchPids(pts, req.query, req.collection_name, req.limit)

\* QdrantConnector.search on the keyword arguments of one call
RequestSearch(pts, req) ==
  IF "filter" \in DOMAIN req
  THEN LET pids == RequestPids(pts, req)
       IN [n \in 1..Len(pids) |->
             [content |-> pts[pids[n]].content,
              metadata |-> Some(pts[pids[n]].metadata),
              score |-> Some(Similarity(req.query, pts[pids[n]].content))]]
  ELSE QdrantSearch(pts, req.query, req.collection_name, req.limit)

\* SearchRequest passing user_id on as a filter
SearchRequestWithFilter(query, top_k, collection_name, user_id) ==
  [query |-> query, collection_name |-> collection_name, limit |-> top_k,
   filter |-> user_id]

\* memory_query: the keyword arguments of client.search
SearchRequest(query, top_k, collection_name, user_id) ==
  [query |-> query, collection_name |-> collection_name, limit |-> top_k]

\* ------------------------------------------------------------------ state
VARIABLES
  provider,      \* get_default_embedding_provider._provider: 0 unset, else the instance
  client,        \* get_default_qdrant_client._client: 0 unset, else the instance
  nProviders,    \* embedding providers constructed by the facade so far
  nConnectors,   \* QdrantConnectors constructed by the facade so far
  points,        \* the vector store: the records upserted so far
  uuids,         \* uuid4 identifiers drawn so far
  task,          \* the tool calls in progress, one slot per concurrent call
  pointIds,      \* history: pointIds[i] is the memory_id of the call that wrote points[i]
  supplied,      \* history: supplied[i] is the metadata argument of that call
  issued,        \* history: the ids returned by finished calls made without an id
  proc           \* main(): how far start-up has come, and what it has set and built

vars == <<provider, client, nProviders, nConnectors, points, uuids, task,
          pointIds, supplied, issued, proc>>

Tasks == 1..MaxTasks

IdleTask ==
  [pc |-> "idle", op |-> "none", text |-> "", top_k |-> 0,
   collection_arg |-> None, user_id |-> None, metadata |-> None, id |-> None,
   clock |-> [sec |-> 0, usec |-> 0],
   collection_name |-> "", client |-> 0, memory_id |-> "", meta |-> EmptyDict,
   hits |-> <<>>, pids |-> <<>>, result |-> <<>>, status |-> "", response |-> <<>>,
   outcome |-> "none", error |-> None, searches |-> 0, stores |-> 0,
   request |-> [query |-> "", collection_name |-> "", limit |-> 0], seen |-> 0]

\* ---------------------------------------------- main.py and server.py
Transports == {"stdio", "sse", "streamable-http"}
HttpTransports == {"sse", "streamable-http"}
\* os.environ.get("FORCE_ASGI_SERVER") when main() starts
EnvValues == {None, Some("1"), Some("0")}

\* main() has parsed --transport and has imported nothing yet
ProcStart(transport, env) ==
  [phase |-> "parsed", transport |-> transport, env0 |-> env, env |-> env,
   imported |-> FALSE,
   server_options |-> FALSE, serverProviders |-> 0, serverConnectors |-> 0,
   run_options |-> FALSE]

\* server.py: server_options are passed only if FORCE_ASGI_SERVER is "1"
ServerOptions(env) == env = Some("1")

\* main(): the import of mcp_server_qdrant.server; QdrantMCPServer.__init__
\* builds its own embedding provider and QdrantConnector
ProcImport(p) ==
  [p EXCEPT !.phase = "imported", !.imported = TRUE,
            !.server_options = ServerOptions(p.env),
            !.serverProviders = @ + 1, !.serverConnectors = @ + 1]

\* main(): set FORCE_ASGI_SERVER for HTTP/SSE, pop it otherwise
ProcSetEnv(p) ==
  [p EXCEPT !.phase = "envset",
            !.env = IF p.transport \in HttpTransports THEN Some("1") ELSE None]

\* main(): mcp.run, with host and port for HTTP/SSE
ProcRun(p) ==
  [p EXCEPT !.phase = "running", !.run_options = p.transport \in HttpTransports]

\* the process serving tool calls after main() ran with the default transport
\* from an environment without FORCE_ASGI_SERVER
ServingStdio == ProcRun(ProcSetEnv(ProcImport(ProcStart("stdio", None))))

Init ==
  /\ proc = ServingStdio
  /\ provider = 0
  /\ client = 0
  /\ nProviders = 0
  /\ nConnectors = 0
  /\ points = <<>>
  /\ uuids = 0
  /\ task = [t \in Tasks |-> IdleTask]
  /\ pointIds = <<>>
  /\ supplied = <<>>
  /\ issued = {}

\* ------------------------------------------- memory.py: the two singletons
\* get_default_embedding_provider(): construct on first use, then reuse
get_default_embedding_provider(fail) ==
  IF provider = 0
  THEN IF fail = "provider"
       THEN [raised |-> TRUE, error |-> "embedding provider misconfigured",
             provider |-> provider, nProviders |-> nProviders]
       ELSE [raised |-> FALSE, error |-> "",
             provider |-> nProviders + 1, nProviders |-> nProviders + 1]
  ELSE [raised |-> FALSE, error |-> "", provider |-> provider, nProviders |-> nProviders]

\* get_default_qdrant_client setting the attribute before the connector is built
get_default_qdrant_client_slot_first(fail) ==
  IF client = 0
  THEN LET p == get_default_embedding_provider(fail)
       IN IF p.raised \/ fail = "connector"
          THEN [raised |-> TRUE,
                error |-> IF p.raised THEN p.error ELSE "store unreachable",
                client |-> -1, nConnectors |-> nConnectors,
                provider |-> p.provider, nProviders |-> p.nProviders]
          ELSE [raised |-> FALSE, error |-> "", client |-> nConnectors + 1,
                nConnectors |-> nConnectors + 1, provider |-> p.provider,
                nProviders |-> p.nProviders]
  ELSE [raised |-> FALSE, error |-> "", client |-> client, nConnectors |-> nConnectors,
        provider |-> provider, nProviders |-> nProviders]

\* get_default_qdrant_client without the hasattr test
get_default_qdrant_client_uncached(fail) ==
  LET p == get_default_embedding_provider(fail)
  IN IF p.raised \/ fail = "connector"
     THEN [raised |-> TRUE, error |-> "store unreachable", client |-> client,
           nConnectors |-> nConnectors, provider |-> p.provider,
           nProviders |-> p.nProviders]
     ELSE [raised |-> FALSE, error |-> "", client |-> nConnectors + 1,
           nConnectors |-> nConnectors + 1, provider |-> p.provider,
           nProviders |-> p.nProviders]

\* get_default_qdrant_client(): a plain function with no await in it, so the
\* event loop runs it from the hasattr test to the return without interleaving
get_default_qdrant_client(fail) ==
  IF client = 0
  THEN LET p == get_default_embedding_provider(fail)
       IN IF p.raised
          THEN [raised |-> TRUE, error |-> p.error, client |-> client,
                nConnectors |-> nConnectors, provider |-> p.provider,
                nProviders |-> p.nProviders]
          ELSE IF fail = "connector"
               THEN [raised |-> TRUE, error |-> "store unreachable", client |-> client,
                     nConnectors |-> nConnectors, provider |-> p.provider,
                     nProviders |-> p.nProviders]
               ELSE [raised |-> FALSE, error |-> "", client |-> nConnectors + 1,
                     nConnectors |-> nConnectors + 1, provider |-> p.provider,
                     nProviders |-> p.nProviders]
  ELSE [raised |-> FALSE, error |-> "", client |-> client, nConnectors |-> nConnectors,
        provider |-> provider, nProviders |-> nProviders]

\* a construction can only fail in a call that attempts it
FailureApplies(fail) ==
  \/ fail = "none"
  \/ fail = "connector" /\ client = 0
  \/ fail = "provider" /\ client = 0 /\ provider = 0

\* ------------------------------------------- mcp_server.py: tool adapters
DefaultCollection(collection_arg) ==
  IF collection_arg = None THEN "default" ELSE collection_arg[1]

\* QueryResponse without the test for no entries
QueryResponseAlwaysHeader(query, result) ==
  <<"Results for '" \o query \o "':">> \o
  [i \in 1..Len(result) |->
     "* " \o result[i].content
          \o " (timestamp: " \o DictGet(result[i].metadata, "timestamp", "-")
          \o ", collection: " \o DictGet(result[i].metadata, "collection_name", "-")
          \o ")"]

\* memory_query_adapter: the formatting of a successful memory_query
\* (the bullet U+2022 that opens a line is written "*" here)
QueryResponse(query, result) ==
  IF result = <<>>
  THEN <<"No information found for the query '" \o query \o "'">>
  ELSE <<"Results for '" \o query \o "':">> \o
       [i \in 1..Len(result) |->
          "* " \o result[i].content
               \o " (timestamp: " \o DictGet(result[i].metadata, "timestamp", "-")
               \o ", collection: " \o DictGet(result[i].metadata, "collection_name", "-")
               \o ")"]

\* QueryExcept re-raising as memory_query does
QueryExceptReraise(query, e) == [outcome |-> "raise", response |-> <<>>]

\* memory_query_adapter: except Exception as e
QueryExcept(query, e) ==
  [outcome |-> "return", response |-> <<"Error searching for '" \o query \o "': " \o e>>]

\* memory_upsert_adapter: the formatting of a successful memory_upsert
UpsertResponse(collection_name, content, meta) ==
  <<"Successfully stored in collection '" \o collection_name \o "': '" \o content
      \o "' (timestamp: " \o DictGet(meta, "timestamp", "-") \o ")">>

\* memory_upsert_adapter: except Exception as e
UpsertExcept(e) ==
  [outcome |-> "return", response |-> <<"An error occurred: " \o e>>]

Singletons(g) ==
  /\ provider' = g.provider
  /\ client' = g.client
  /\ nProviders' = g.nProviders
  /\ nConnectors' = g.nConnectors

\* The tool memory_query is called: the adapter runs memory_query up to its
\* await of client.search, or to the failure of get_default_qdrant_client.
memory_query_adapter(t, query, top_k, collection_arg, user_id, fail) ==
  /\ proc.phase = "running"
  /\ task[t].pc = "idle"
  /\ FailureApplies(fail)
  /\ LET g == get_default_qdrant_client(fail)
         call == [IdleTask EXCEPT !.op = "query", !.text = query, !.top_k = top_k,
                    !.collection_arg = collection_arg, !.user_id = user_id,
                    !.collection_name = DefaultCollection(collection_arg)]
     IN /\ Singletons(g)
        /\ IF g.raised
           THEN task' = [task EXCEPT ![t] =
                  [call EXCEPT !.pc = "done", !.error = Some(g.error),
                     !.outcome = QueryExcept(query, g.error).outcome,
                     !.response = QueryExcept(query, g.error).response]]
           ELSE task' = [task EXCEPT ![t] =
                  [call EXCEPT !.pc = "search", !.client = g.client,
                     !.request = SearchRequest(query, top_k, call.collection_name,
                                               user_id)]]
  /\ UNCHANGED <<proc, points, uuids, pointIds, supplied, issued>>

\* client.search returns hits: memory_query maps and sorts them, the adapter
\* formats them
SearchReturns(t, hits, pids) ==
  /\ task[t].pc = "search"
  /\ LET result == QueryResult(hits)
     IN task' = [task EXCEPT ![t] =
          [@ EXCEPT !.pc = "done", !.searches = @ + 1, !.hits = hits, !.pids = pids,
             !.seen = Len(points),
             !.result = result, !.status = "success", !.outcome = "return",
             !.response = QueryResponse(task[t].text, result)]]
  /\ UNCHANGED <<proc, provider, client, nProviders, nConnectors, points, uuids,
                 pointIds, supplied, issued>>

\* the store answers the search
client_search_returns(t) ==
  SearchReturns(t, RequestSearch(points, task[t].request),
                RequestPids(points, task[t].request))

\* client.search raises (embedding or store error): memory_query re-raises,
\* the adapter catches
client_search_raises(t, e) ==
  /\ task[t].pc = "search"
  /\ task' = [task EXCEPT ![t] =
       [@ EXCEPT !.pc = "done", !.searches = @ + 1, !.error = Some(e),
          !.outcome = QueryExcept(task[t].text, e).outcome,
          !.response = QueryExcept(task[t].text, e).response]]
  /\ UNCHANGED <<proc, provider, client, nProviders, nConnectors, points, uuids,
                 pointIds, supplied, issued>>

\* stores awaited by the calls in progress
PendingStores == Cardinality({u \in Tasks : task[u].pc = "store"})

\* The tool memory_upsert is called: the adapter runs memory_upsert up to its
\* await of client.store, or to the failure of get_default_qdrant_client.
memory_upsert_adapter(t, content, collection_arg, metadata, id, clock, fail) ==
  /\ proc.phase = "running"
  /\ task[t].pc = "idle"
  /\ FailureApplies(fail)
  /\ Len(points) + PendingStores < MaxPoints
  /\ NeedsUuid(id) => uuids < MaxUuid
  /\ LET g == get_default_qdrant_client(fail)
         collection_name == DefaultCollection(collection_arg)
         call == [IdleTask EXCEPT !.op = "upsert", !.text = content,
                    !.collection_arg = collection_arg, !.metadata = metadata,
                    !.id = id, !.clock = clock, !.collection_name = collection_name]
     IN /\ Singletons(g)
        /\ IF g.raised
           THEN /\ task' = [task EXCEPT ![t] =
                     [call EXCEPT !.pc = "done", !.error = Some(g.error),
                        !.outcome = UpsertExcept(g.error).outcome,
                        !.response = UpsertExcept(g.error).response]]
                /\ uuids' = uuids
           ELSE /\ task' = [task EXCEPT ![t] =
                     [call EXCEPT !.pc = "store", !.client = g.client,
                        !.memory_id = MemoryId(id, uuids + 1),
                        !.meta = UpsertMeta(content, collection_name, metadata, clock)]]
                /\ uuids' = IF NeedsUuid(id) THEN uuids + 1 ELSE uuids
  /\ UNCHANGED <<proc, points, pointIds, supplied, issued>>

\* the mapping a caller supplied: no mapping is the empty mapping
SuppliedMapping(metadata) == IF metadata = None THEN EmptyDict ELSE metadata[1]

\* client.store returns: memory_upsert returns status, id and metadata, the
\* adapter formats the confirmation
client_store_returns(t) ==
  /\ task[t].pc = "store"
  /\ points' = QdrantStore(points, [content |-> task[t].text, metadata |-> task[t].meta],
                           task[t].collection_name)
  /\ pointIds' = Append(pointIds, task[t].memory_id)
  /\ supplied' = Append(supplied, SuppliedMapping(task[t].metadata))
  /\ task' = [task EXCEPT ![t] =
       [@ EXCEPT !.pc = "done", !.stores = @ + 1, !.status = "success",
          !.outcome = "return",
          !.response = UpsertResponse(task[t].collection_name, task[t].text, task[t].meta)]]
  /\ UNCHANGED <<proc, provider, client, nProviders, nConnectors, uuids, issued>>

\* client.store raises (embedding or store error): the adapter catches
client_store_raises(t, e) ==
  /\ task[t].pc = "store"
  /\ task' = [task EXCEPT ![t] =
       [@ EXCEPT !.pc = "done", !.stores = @ + 1, !.error = Some(e),
          !.outcome = UpsertExcept(e).outcome,
          !.response = UpsertExcept(e).response]]
  /\ UNCHANGED <<proc, provider, client, nProviders, nConnectors, points, uuids,
                 pointIds, supplied, issued>>

\* the tool call is over: its response has gone to the caller
tool_returns(t) ==
  /\ task[t].pc = "done"
  /\ issued' = IF task[t].op = "upsert" /\ task[t].status = "success" /\ NeedsUuid(task[t].id)
               THEN issued \cup {task[t].memory_id} ELSE issued
  /\ task' = [task EXCEPT ![t] = IdleTask]
  /\ UNCHANGED <<proc, provider, client, nProviders, nConnectors, points, uuids,
                 pointIds, supplied>>

\* ------ Spec: one tool call at a time, every metadata, no explicit id
CallQuery(t) ==
  /\ task[t].pc = "idle"
  /\ \E query \in Contents, top_k \in 0..MaxTopK, collection_arg \in CollectionArgs,
     user_id \in UserArgs, fail \in ConstructFailures :
       memory_query_adapter(t, query, top_k, collection_arg, user_id, fail)

CallUpsert(t) ==
  /\ task[t].pc = "idle"
  /\ \E content \in Contents, collection_arg \in CollectionArgs, metadata \in MetadataArgs,
     clock \in ClockReadings, fail \in ConstructFailures :
       memory_upsert_adapter(t, content, collection_arg, metadata, None, clock, fail)

SearchOk == client_search_returns(1)
SearchError == \E e \in AwaitErrors : client_search_raises(1, e)
StoreOk == client_store_returns(1)
StoreError == \E e \in AwaitErrors : client_store_raises(1, e)
Return == tool_returns(1)

Next ==
  \/ CallQuery(1)
  \/ CallUpsert(1)
  \/ SearchOk
  \/ SearchError
  \/ StoreOk
  \/ StoreError
  \/ Return

Spec == Init /\ [][Next]_vars

\* ------------- SpecHits: memory_query over any list of hits a store returns
Payloads == {None, Some([k \in {"timestamp"} |-> "t"])}
Hits == [content : {"", "a"}, metadata : Payloads,
         score : {None} \cup {Some(s) : s \in RawScores}]
HitLists == UNION {[1..n -> Hits] : n \in 0..MaxHits}

CallQueryOnce ==
  /\ task[1].pc = "idle"
  /\ \E query \in Contents, fail \in ConstructFailures :
       memory_query_adapter(1, query, MaxTopK, None, None, fail)

SearchAny ==
  /\ task[1].pc = "search"
  /\ \E hits \in HitLists : SearchReturns(1, hits, [i \in 1..Len(hits) |-> 0])

NextHits ==
  \/ CallQueryOnce
  \/ SearchAny
  \/ SearchError
  \/ Return

SpecHits == Init /\ [][NextHits]_vars

\* ------------- SpecIds: one memory_upsert at a time, every id argument
Epoch == [sec |-> 0, usec |-> 0]

IdsUpsert ==
  /\ task[1].pc = "idle"
  /\ \E content \in Contents, id \in IdArgs, fail \in ConstructFailures :
       memory_upsert_adapter(1, content, None, None, id, Epoch, fail)

NextIds ==
  \/ IdsUpsert
  \/ StoreOk
  \/ StoreError
  \/ Return

SpecIds == Init /\ [][NextIds]_vars

\* ------------- SpecConc: tool calls interleaved at their awaits

ConcQuery ==
  \E t \in Tasks, fail \in ConstructFailures :
    memory_query_adapter(t, "a", 1, None, None, fail)

ConcUpsert ==
  \E t \in Tasks, id \in {None, Some("i")}, fail \in ConstructFailures :
    memory_upsert_adapter(t, "a", None, None, id, Epoch, fail)

ConcSearchOk == \E t \in Tasks : client_search_returns(t)
ConcSearchError == \E t \in Tasks, e \in AwaitErrors : client_search_raises(t, e)
ConcStoreOk == \E t \in Tasks : client_store_returns(t)
ConcStoreError == \E t \in Tasks, e \in AwaitErrors : client_store_raises(t, e)
ConcReturn == \E t \in Tasks : tool_returns(t)

NextConc ==
  \/ ConcQuery
  \/ ConcUpsert
  \/ ConcSearchOk
  \/ ConcSearchError
  \/ ConcStoreOk
  \/ ConcStoreError
  \/ ConcReturn

SpecConc == Init /\ [][NextConc]_vars

\* ------------- SpecUsers: queries with and without user_id, interleaved
UsersUpsert ==
  \E t \in Tasks, metadata \in {None, Some([k \in {"user_id"} |-> "u"])} :
    memory_upsert_adapter(t, "a", None, metadata, None, Epoch, "none")

UsersQuery ==
  \E t \in Tasks, user_id \in UserArgs :
    memory_query_adapter(t, "a", MaxTopK, None, user_id, "none")

NextUsers ==
  \/ UsersUpsert
  \/ UsersQuery
  \/ ConcSearchOk
  \/ ConcStoreOk
  \/ ConcReturn

SpecUsers == Init /\ [][NextUsers]_vars

\* ------------- SpecMain: start-up, then tool calls interleaved at their awaits
InitMain ==
  /\ \E transport \in Transports, env \in EnvValues : proc = ProcStart(transport, env)
  /\ provider = 0
  /\ client = 0
  /\ nProviders = 0
  /\ nConnectors = 0
  /\ points = <<>>
  /\ uuids = 0
  /\ task = [t \in Tasks |-> IdleTask]
  /\ pointIds = <<>>
  /\ supplied = <<>>
  /\ issued = {}

Facade == <<provider, client, nProviders, nConnectors, points, uuids, task,
            pointIds, supplied, issued>>

\* from mcp_server_qdrant.server import mcp
main_import ==
  /\ proc.phase = "parsed"
  /\ proc' = ProcImport(proc)
  /\ UNCHANGED Facade

\* the import fails: settings, provider or connector of the server raise
main_import_raises ==
  /\ proc.phase = "parsed"
  /\ proc' = [proc EXCEPT !.phase = "failed"]
  /\ UNCHANGED Facade

main_set_env ==
  /\ proc.phase = "imported"
  /\ proc' = ProcSetEnv(proc)
  /\ UNCHANGED Facade

main_run ==
  /\ proc.phase = "envset"
  /\ proc' = ProcRun(proc)
  /\ UNCHANGED Facade

NextMain ==
  \/ main_import
  \/ main_import_raises
  \/ main_set_env
  \/ main_run
  \/ ConcQuery
  \/ ConcUpsert
  \/ ConcSearchOk
  \/ ConcSearchError
  \/ ConcStoreOk
  \/ ConcStoreError
  \/ ConcReturn

SpecMain == InitMain /\ [][NextMain]_vars

\* ================================================================ claims
QueryOk(t) == task[t].pc = "done" /\ task[t].op = "query" /\ task[t].status = "success"
UpsertOk(t) == task[t].pc = "done" /\ task[t].op = "upsert" /\ task[t].status = "success"

\* the position in the hits of the result item with this id
HitOf(id, n) == 1 + CHOOSE i \in 0..(n - 1) : ToString(i) = id

\* C1: whatever hits the store returns, the list memory_query returns is in
\* non-increasing score order and is a permutation of the mapped hits
C1_SortedPermutation ==
  \A t \in Tasks : QueryOk(t) =>
    LET result == task[t].result
        mapped == MappedHits(task[t].hits)
    IN /\ \A i \in 1..(Len(result) - 1) : result[i].score >= result[i + 1].score
       /\ Len(result) = Len(mapped)
       /\ {result[j].id : j \in 1..Len(result)} = {mapped[i].id : i \in 1..Len(mapped)}
       /\ \A i \in 1..Len(mapped) : \E j \in 1..Len(result) : result[j] = mapped[i]

\* C1 witness: three hits, one without a score, that the sort had to reorder
C1_Witness ==
  \E t \in Tasks :
    /\ QueryOk(t)
    /\ Len(task[t].hits) = 3
    /\ \E i \in 1..3 : task[t].hits[i].score = None
    /\ task[t].result /= MappedHits(task[t].hits)

\* the ids callers pass explicitly
ExplicitIds == {id[1] : id \in IdArgs \ {None}}

\* C2: storing with an explicit id overwrites: the collection never holds
\* more than one record written under the same explicit id
C2_ExplicitIdOverwrites ==
  \A x \in ExplicitIds :
    Cardinality({i \in 1..Len(points) : pointIds[i] = x}) <= 1

\* C3 as claimed: an id-less call returns an id no earlier call returned, and
\* a call with an id returns that id
C3_Original ==
  \A t \in Tasks : UpsertOk(t) =>
    /\ task[t].id = None => task[t].memory_id \notin issued
    /\ task[t].id /= None => task[t].memory_id = task[t].id[1]

\* C3 amended: a call without an id, or with the empty string as id, returns
\* a generated id that no earlier such call returned; a call with a non-empty
\* id returns that id
C3_FreshOrSupplied ==
  \A t \in Tasks : UpsertOk(t) =>
    /\ NeedsUuid(task[t].id) =>
         /\ task[t].memory_id \notin issued
         /\ task[t].memory_id /= ""
         /\ \A u \in Tasks \ {t} : UpsertOk(u) => task[u].memory_id /= task[t].memory_id
    /\ (task[t].id /= None /\ task[t].id /= Some("")) => task[t].memory_id = task[t].id[1]

\* C3 witness: an id-less call returns after an earlier id-less call did
C3_Witness ==
  \E t \in Tasks : UpsertOk(t) /\ task[t].id = None /\ issued /= {}

\* C4: the collection_name of the metadata returned and of the record stored
\* is the collection the record was upserted into
C4_CollectionNameIsStorage ==
  /\ \A t \in Tasks : UpsertOk(t) =>
       task[t].meta["collection_name"] = task[t].collection_name
  /\ \A i \in 1..Len(points) :
       points[i].metadata["collection_name"] = points[i].collection

\* C5: the metadata returned and stored has a timestamp: the caller's when
\* the caller supplied one, else the clock read in the call as now_iso gives it
C5_Timestamp ==
  \A t \in Tasks : UpsertOk(t) =>
    LET sup == SuppliedMapping(task[t].metadata)
        want == IF "timestamp" \in DOMAIN sup THEN sup["timestamp"]
                ELSE now_iso(task[t].clock)
        stored == points[Len(points)].metadata
    IN /\ "timestamp" \in DOMAIN task[t].meta
       /\ task[t].meta["timestamp"] = want
       /\ "timestamp" \in DOMAIN stored
       /\ stored["timestamp"] = want

\* C5 witness: a call without a timestamp, its clock read between two seconds
C5_Witness ==
  \E t \in Tasks :
    /\ UpsertOk(t)
    /\ "timestamp" \notin DOMAIN SuppliedMapping(task[t].metadata)
    /\ task[t].clock.usec /= 0

\* C6 as claimed: the metadata a query returns for a record is the supplied
\* mapping, every key keeping its value, plus only timestamp and collection_name
C6_Original ==
  \A t \in Tasks : QueryOk(t) =>
    \A j \in 1..Len(task[t].result) :
      LET md == task[t].result[j].metadata
          sup == supplied[task[t].pids[HitOf(task[t].result[j].id, Len(task[t].pids))]]
      IN /\ DOMAIN md = DOMAIN sup \cup {"timestamp", "collection_name"}
         /\ \A k \in DOMAIN sup : md[k] = sup[k]

\* C6 amended: the metadata a query returns for a record is the supplied
\* mapping with the key content set to the stored content (a supplied content
\* value is replaced), plus timestamp and collection_name
C6_RoundTripButContent ==
  \A t \in Tasks : QueryOk(t) =>
    \A j \in 1..Len(task[t].result) :
      LET md == task[t].result[j].metadata
          pid == task[t].pids[HitOf(task[t].result[j].id, Len(task[t].pids))]
          sup == supplied[pid]
      IN /\ DOMAIN md = DOMAIN sup \cup {"timestamp", "content", "collection_name"}
         /\ \A k \in DOMAIN sup \ {"content"} : md[k] = sup[k]
         /\ md["content"] = points[pid].content

\* C6 witness: a query returns a record stored with timestamp, content,
\* collection_name and user_id supplied
C6_Witness ==
  \E t \in Tasks :
    /\ QueryOk(t)
    /\ \E j \in 1..Len(task[t].result) :
         /\ supplied[task[t].pids[HitOf(task[t].result[j].id, Len(task[t].pids))]] = FullDict
         /\ task[t].result[j].metadata["user_id"] = "u"

\* some record of the queried collection holds the queried text
Stored(t) ==
  \E i \in 1..Len(points) :
    points[i].content = task[t].text /\ points[i].collection = task[t].collection_name

\* C7 as claimed: a query for a stored content whose search returned ends
\* with a non-empty result that contains the content
C7_Original ==
  \A t \in Tasks :
    (QueryOk(t) /\ Stored(t)) =>
      \E j \in 1..Len(task[t].result) : task[t].result[j].content = task[t].text

\* C7 amended: a query for a stored content with top_k >= 1 whose search
\* returned ends with a result that contains the content
C7_FoundWhenSearched ==
  \A t \in Tasks :
    (QueryOk(t) /\ Stored(t) /\ task[t].top_k >= 1) =>
      /\ \E j \in 1..Len(task[t].result) : task[t].result[j].content = task[t].text
      /\ Len(task[t].response) = Len(task[t].result) + 1

\* C7 witness: the content was stored first, another content after it, and a
\* query with top_k = 1 returns it
C7_Witness ==
  \E t \in Tasks :
    /\ QueryOk(t)
    /\ task[t].top_k = 1
    /\ Len(points) = 2
    /\ points[1].content = task[t].text
    /\ points[2].content /= task[t].text
    /\ points[1].collection = task[t].collection_name
    /\ points[2].collection = task[t].collection_name
    /\ task[t].result[1].content = task[t].text

\* C8: when the search yields no hits the tool returns the one documented
\* message, with no header line and no error string
C8_NoInformationFound ==
  \A t \in Tasks : (QueryOk(t) /\ task[t].hits = <<>>) =>
    /\ task[t].outcome = "return"
    /\ task[t].response =
         <<"No information found for the query '" \o task[t].text \o "'">>

\* C8 witness: a query of an empty store with top_k >= 1 has returned
C8_Witness ==
  \E t \in Tasks :
    QueryOk(t) /\ task[t].hits = <<>> /\ points = <<>> /\ task[t].top_k >= 1

\* C9: a call in which construction, embedding, search or store raised ends
\* with the adapter returning one error string, the operation tried once
C9_ErrorsBecomeStrings ==
  \A t \in Tasks :
    /\ task[t].outcome /= "raise"
    /\ task[t].searches + task[t].stores <= 1
    /\ (task[t].pc = "done" /\ task[t].error /= None) =>
         /\ task[t].outcome = "return"
         /\ task[t].response =
              IF task[t].op = "query"
              THEN <<"Error searching for '" \o task[t].text \o "': " \o task[t].error[1]>>
              ELSE <<"An error occurred: " \o task[t].error[1]>>

\* C9 witness: a search raised and the query tool has returned
C9_Witness ==
  \E t \in Tasks :
    /\ task[t].pc = "done"
    /\ task[t].op = "query"
    /\ task[t].searches = 1
    /\ task[t].error = Some("connection refused")

\* C10: the facade constructs at most one connector and one embedding
\* provider, and every call uses that one connector
C10_OneConnector ==
  /\ nConnectors <= 1
  /\ nProviders <= 1
  /\ \A t \in Tasks : task[t].client /= 0 => task[t].client = client

\* C10 witness: two calls are awaiting the store at once on the one connector
C10_Witness ==
  \E t, u \in Tasks :
    /\ t /= u
    /\ task[t].pc = "search"
    /\ task[u].pc = "store"
    /\ task[t].client = task[u].client
    /\ nConnectors = 1

\* C11: no QdrantConnector is constructed before the server takes tool calls,
\* and the process never constructs more than the one the tool calls use
C11_LazyOnlyHandle ==
  /\ proc.phase /= "running" => proc.serverConnectors + nConnectors = 0
  /\ proc.serverConnectors + nConnectors <= 1
  /\ \A t \in Tasks : task[t].client /= 0 => proc.serverConnectors = 0

\* C12: the server is constructed with FORCE_ASGI_SERVER already set or
\* cleared for the transport: started with the variable unset, it gets
\* server_options exactly for the transports sse and streamable-http
C12_ServerBuiltAfterEnv ==
  (proc.imported /\ proc.env0 = None) =>
    (proc.server_options <=> proc.transport \in HttpTransports)

Arrives(t) == task[t].pc = "idle" /\ task'[t].pc /= "idle"

\* C14: a call that finds the connector slot unset attempts the construction:
\* it either sets the slot to a new connector or reports the error and leaves
\* the slot unset; a call that finds the slot set constructs nothing
C14_FailureNotCached ==
  [][\A t \in Tasks : Arrives(t) =>
       /\ client = 0 =>
            \/ /\ client' /= 0
               /\ nConnectors' = nConnectors + 1
               /\ task'[t].client = client'
               /\ task'[t].error = None
            \/ /\ client' = 0
               /\ nConnectors' = nConnectors
               /\ task'[t].pc = "done"
               /\ task'[t].error /= None
               /\ task'[t].response \in
                    {<<"Error searching for '" \o task'[t].text \o "': " \o task'[t].error[1]>>,
                     <<"An error occurred: " \o task'[t].error[1]>>}
       /\ client /= 0 =>
            /\ client' = client
            /\ nConnectors' = nConnectors
            /\ nProviders' = nProviders
            /\ task'[t].client = client
            /\ task'[t].error = None]_vars

\* C14 witness: the connector failed to build in a call that has reported it,
\* the provider built earlier is kept, the connector slot is unset
C14_Witness ==
  \E t \in Tasks :
    /\ task[t].pc = "done"
    /\ task[t].error = Some("store unreachable")
    /\ task[t].searches + task[t].stores = 0
    /\ client = 0
    /\ provider /= 0

====
